---- MODULE Spec2Model ----
(***************************************************************************)
(* BatchTransport (winston-batch-transport): the batching / dispatch /     *)
(* retry / backup engine of src/unnamed/part_001 (the current index.ts).   *)
(*                                                                         *)
(* Node.js runs the engine on one thread.  An action of this model is one  *)
(* event-loop turn: an external call (log, init, close), a timer callback, *)
(* or the completion of an I/O operation (HTTP POST, file read, file       *)
(* write, sleep) followed by everything the awaiting code does until it    *)
(* awaits I/O again.  Awaits of promises that are already settled are part *)
(* of the same turn.                                                       *)
(***************************************************************************)
EXTENDS Naturals, Sequences, FiniteSets, TLC

\* ------------------------------------------------------------------ bounds
\* Sizes of the model's tables.
MaxLog == 5          \* largest number of log() calls any specification explores
MaxInit == 2         \* init() calls that may be in progress at once
MaxCycles == 2       \* retry cycles that may run at once

\* What the environment does in the specification Spec (from the constructor
\* on): how many log() calls, init() calls that pass the guard, close() calls,
\* failing axios.post calls and failing fs.writeFile calls are explored.
LifeLogs == 1
LifeInits == 2
LifeCloses == 1
LifeSendFails == 2
LifeWriteFails == 1

\* The same for the specification SpecRun (the engine at work).
RunLogs == 4
RunCloses == 1
RunSendFails == 4
RunWriteFails == 0

\* The same for the specification SpecLog (log() in every phase).
LogLogs == 4
LogCloses == 1
LogSendFails == 2

\* The same for the specification SpecLive (no close(): the timers keep firing).
LiveLogs == 3
LiveSendFails == 2

\* The same for the specification SpecRetry (retry chunks that run out of
\* attempts while other batches fail).
RetryLogs == 4
RetrySendFails == 5

\* The same for the specification SpecStore (the backup store on any file).
StoreLogs == 2
StoreCloses == 2
StoreSendFails == 2

\* The same for the specification SpecFifo (a queue longer than a batch).
FifoLogs == 5
FifoCloses == 1
FifoSendFails == 2

\* The same for the specification SpecSender (every transport result on both
\* paths, the result of each POST recorded).
SenderLogs == 3
SenderSendFails == 3

\* The same for the specification SpecClose (close() under fair scheduling).
CloseLogs == 2
CloseSendFails == 4

\* The same for the specification SpecRecover (a backup file of records that
\* no sanitizeLog call produced).
RecoverLogs == 2
RecoverCloses == 1
RecoverSendFails == 2

\* ------------------------------------------------------- program constants
BatchSize == 2
MaxConcurrentBatches == 2
RetryLimit == 3
BackoffFactor == 1000

\* ----------------------------------------------------------------- records
\* A LogEntry is identified by id; valid is the verdict validateLog will give,
\* sanitized tells whether sanitizeLog has produced it.
\* Ids 1..MaxLog are created by log(); id 0 is a record left in the backup
\* file by an earlier process.
LogIds == 1..MaxLog
StartupRec == [id |-> 0, valid |-> TRUE, sanitized |-> TRUE]
AllIds == 0..MaxLog
LogEntry == [id : AllIds, valid : BOOLEAN, sanitized : BOOLEAN]

\* The backup file and what JSON.parse makes of it.  kind tells what the
\* content is: no file ("missing"), zero bytes ("empty"), text that is no
\* JSON ("garbage"), the JSON null, a JSON number, a JSON object, a JSON
\* string (logs: its characters) or a JSON array (logs: its elements).
NoFile == [kind |-> "missing", logs |-> << >>]

\* A character of a JSON string, pushed on the queue as if it were a record.
JunkEntry == [id |-> 0, valid |-> FALSE, sanitized |-> FALSE]

FileKindsUnparsed == {"missing", "empty", "garbage"}
FileKindsNotArray == {"null", "number", "object", "string"}

StringifyLast(logs) ==
    [kind |-> "array", logs |-> IF logs = << >> THEN << >> ELSE <<logs[Len(logs)]>>]

\* JSON.stringify(logs, null, 2) of an array of records.
Stringify(logs) == [kind |-> "array", logs |-> logs]

\* The records a file holds.
FileLogs(f) == IF f.kind = "array" THEN f.logs ELSE << >>

\* The backup file as the process finds it: none, or one record left by an
\* earlier process.
StartupFiles == {NoFile, Stringify(<<StartupRec>>)}

\* Files that hold no array of records.
OddFiles ==
    {[kind |-> k, logs |-> << >>] :
         k \in (FileKindsUnparsed \cup FileKindsNotArray) \ {"string"}}
        \cup {[kind |-> "string", logs |-> <<JunkEntry>>]}

\* Backup files whose array holds a record no sanitizeLog call produced (an
\* edited file, a file of another writer): one that validateLog accepts, one
\* that it rejects.
RawRec == [id |-> 0, valid |-> TRUE, sanitized |-> FALSE]
RawFiles == {Stringify(<<RawRec>>), Stringify(<<JunkEntry>>)}

\* What axios.post can end with: an HTTP status, or 0 for no response at all
\* (timeout, connection error).
TransportResults == {200, 401, 403, 400, 404, 500, 0}

RECURSIVE SeqCount(_, _)
SeqCount(s, id) ==
    IF s = << >> THEN 0
    ELSE (IF Head(s).id = id THEN 1 ELSE 0) + SeqCount(Tail(s), id)

Take(s, n) == SubSeq(s, 1, IF n < Len(s) THEN n ELSE Len(s))
Drop(s, n) == SubSeq(s, (IF n < Len(s) THEN n ELSE Len(s)) + 1, Len(s))
Ids(s) == {s[k].id : k \in 1..Len(s)}
Bump(f, s) == [x \in DOMAIN f |-> f[x] + SeqCount(s, x)]

\* ------------------------------------------------------------------- state
VARIABLES
    logQueue,              \* this.logQueue
    retryQueue,            \* this.retryQueue
    activeBatches,         \* this.activeBatches
    initialized,           \* this.initialized
    backupWriteInProgress, \* this.backupWriteInProgress
    flushTimer,            \* this.flushTimer: 0 (null) or a timer handle
    retryTimer,            \* this.retryTimer: 0 (null) or a timer handle
    armedFlush,            \* handles of the flush intervals Node has armed
    armedRetry,            \* handles of the retry intervals Node has armed
    file,                  \* content of the backup file
    ft,                    \* running flushLogs() calls
    rc,                    \* running retryFailedLogs() calls
    ic,                    \* init() calls
    cl,                    \* the close() call
    nextId,                \* id of the next record log() creates
    callbacks,             \* number of completion callbacks log() has invoked
    attempts,              \* per record: POSTs issued with it in the payload
    delivered,             \* per record: POSTs with it that succeeded
    backupWrites,          \* per record: fs.writeFile calls that appended it
    loads,                 \* number of times loadBackupLogs pushed records
    validLogged,           \* ids of the valid records log() has enqueued
    permFlushed,           \* ids whose latest flush-time send failed permanently
    writeFails,            \* number of fs.writeFile calls that failed
    sendFails,             \* number of axios.post calls that failed
    initCalls,             \* number of init() calls that passed the guard
    lim,                   \* the environment: its limits and the backup file
                           \* it left at startup (never changes)
    errors,                \* number of 'error' events emitted
    exhausted,             \* ids of the records whose retry chunk ran out of attempts
    lastPost               \* << >>, or <<r>> for the result r of the latest POST that
                           \* settled (recorded where lim.observe is set)

vars == <<logQueue, retryQueue, activeBatches, initialized, backupWriteInProgress,
          flushTimer, retryTimer, armedFlush, armedRetry, file, ft, rc, ic, cl,
          nextId, callbacks, attempts, delivered, backupWrites, loads,
          validLogged, permFlushed, writeFails, sendFails, initCalls, lim, errors,
          exhausted, lastPost>>

FlushSlots == 1..MaxConcurrentBatches
CycleSlots == 1..MaxCycles
InitSlots == 1..MaxInit

IdleFlush == [pc |-> "idle", batch |-> << >>, j |-> 0, existing |-> << >>,
              awaited |-> FALSE]
IdleCycle == [pc |-> "idle", snap |-> << >>, i |-> 0, attempt |-> 0, delay |-> 0,
              j |-> 0, existing |-> << >>, awaited |-> FALSE]

\* The state the constructor leaves, for an environment limited by l.
InitFrom(l, files) ==
    /\ lim \in {[l EXCEPT !.startup = f] : f \in files}
    /\ initCalls = 0
    /\ logQueue = << >>
    /\ retryQueue = << >>
    /\ activeBatches = 0
    /\ initialized = FALSE
    /\ backupWriteInProgress = FALSE
    /\ flushTimer = 0
    /\ retryTimer = 0
    /\ armedFlush = {}
    /\ armedRetry = {}
    /\ file = lim.startup
    /\ ft = [t \in FlushSlots |-> IdleFlush]
    /\ rc = [c \in CycleSlots |-> IdleCycle]
    /\ ic = [k \in InitSlots |-> "idle"]
    /\ cl = [pc |-> "idle", calls |-> 0, held |-> {}]
    /\ nextId = 1
    /\ callbacks = 0
    /\ attempts = [x \in AllIds |-> 0]
    /\ delivered = [x \in AllIds |-> 0]
    /\ backupWrites = [x \in AllIds |-> 0]
    /\ loads = 0
    /\ validLogged = {}
    /\ permFlushed = {}
    /\ writeFails = 0
    /\ sendFails = 0
    /\ errors = 0
    /\ exhausted = {}
    /\ lastPost = << >>

InitWith(l) == InitFrom(l, StartupFiles)

\* ------------------------------------------------- the engine's own state
\* The fields one event-loop turn can change while it runs through several
\* methods; stuck marks a turn that needs more slots than the model has.
Cur ==
    [lq |-> logQueue, rq |-> retryQueue, ab |-> activeBatches,
     flag |-> backupWriteInProgress, ft |-> ft, rc |-> rc, cl |-> cl,
     att |-> attempts, stuck |-> FALSE]

Commit(m) ==
    /\ ~m.stuck
    /\ logQueue' = m.lq
    /\ retryQueue' = m.rq
    /\ activeBatches' = m.ab
    /\ backupWriteInProgress' = m.flag
    /\ ft' = m.ft
    /\ rc' = m.rc
    /\ cl' = m.cl
    /\ attempts' = m.att

\* --------------------------------------------------- validate and sanitize
validateLog(log) == log.valid

sanitizeLogIdentity(log) == log

sanitizeLog(log) == [log EXCEPT !.sanitized = TRUE]

ValidatedAll(logs) == [k \in 1..Len(logs) |-> sanitizeLog(logs[k])]

Validated(logs) ==
    LET kept == SelectSeq(logs, validateLog)
    IN  [k \in 1..Len(kept) |-> sanitizeLog(kept[k])]

\* ------------------------------------------------------------------ sender
\* sendLogs: the message prefix of the error it throws, "ok" when it returns.
Classify(res) ==
    CASE res = 200 -> "ok"
      [] res = 401 -> "Unauthorized"
      [] res = 403 -> "Forbidden"
      [] res \in {400, 404} -> "Permanent error"
      [] OTHER -> "transient"

IsPermanentAuthOnly(kind) == kind \in {"Unauthorized", "Forbidden"}

\* The test both catch blocks apply to error.message.
IsPermanent(kind) == kind \in {"Unauthorized", "Forbidden", "Permanent error"}

\* ------------------------------------------------------------ backup store
\* loadBackupLogsFromFile: fs.readFile and JSON.parse; a rejected read and a
\* parse error are caught and give []; any JSON value is returned as parsed.
LoadBackupLogsFromFile(f) ==
    IF f.kind \in FileKindsUnparsed THEN [kind |-> "array", logs |-> << >>] ELSE f

\* backupFailedLog finding the flag set: what its finally block leaves in it.
FlagAfterRequeue == FALSE

\* The caller's "for (const log of batch) await this.backupFailedLog(log)"
\* from index j on, up to the first call that starts reading the file: a call
\* that finds backupWriteInProgress set pushes its record on the retry queue
\* and returns.  reading tells whether a call now awaits fs.readFile for
\* batch[j]; otherwise the loop is over.
RECURSIVE BackupLoop(_, _, _, _)
BackupLoop(batch, j, rq, flag) ==
    IF j > Len(batch) THEN [j |-> j, rq |-> rq, flag |-> flag, reading |-> FALSE]
    ELSE IF flag THEN BackupLoop(batch, j + 1, Append(rq, batch[j]), FlagAfterRequeue)
    ELSE [j |-> j, rq |-> rq, flag |-> TRUE, reading |-> TRUE]

\* ------------------------------------------------------------ retry engine
BackoffLinear(attempt) == BackoffFactor * (attempt + 1)

\* this.backoffFactor * Math.pow(2, attempt), the sleep before an attempt (ms).
Backoff(attempt) == BackoffFactor * 2^attempt

FreeCycles(m) == {c \in CycleSlots : m.rc[c].pc = "idle"}

RetryKeepsQueue(m, awaited) ==
    IF m.rq = << >> THEN m
    ELSE IF FreeCycles(m) = {} THEN [m EXCEPT !.stuck = TRUE]
    ELSE LET c == CHOOSE x \in FreeCycles(m) : \A y \in FreeCycles(m) : x <= y
         IN  [m EXCEPT !.rc[c] = [pc |-> "backoff", snap |-> m.rq, i |-> 1,
                                  attempt |-> 0, delay |-> Backoff(0), j |-> 0,
                                  existing |-> << >>, awaited |-> awaited]]

RetryNoGuard(m, awaited) ==
    IF FreeCycles(m) = {} THEN [m EXCEPT !.stuck = TRUE]
    ELSE LET c == CHOOSE x \in FreeCycles(m) : \A y \in FreeCycles(m) : x <= y
         IN  [m EXCEPT !.rq = << >>,
                       !.rc[c] = [pc |-> "backoff", snap |-> m.rq, i |-> 1,
                                  attempt |-> 0, delay |-> Backoff(0), j |-> 0,
                                  existing |-> << >>, awaited |-> awaited]]

\* retryFailedLogs up to its first backoff sleep.
RetryFailedLogs(m, awaited) ==
    IF m.rq = << >> THEN m
    ELSE IF FreeCycles(m) = {} THEN [m EXCEPT !.stuck = TRUE]
    ELSE LET c == CHOOSE x \in FreeCycles(m) : \A y \in FreeCycles(m) : x <= y
         IN  [m EXCEPT !.rq = << >>,
                       !.rc[c] = [pc |-> "backoff", snap |-> m.rq, i |-> 1,
                                  attempt |-> 0, delay |-> Backoff(0), j |-> 0,
                                  existing |-> << >>, awaited |-> awaited]]

ChunkToEnd(r) == SubSeq(r.snap, r.i, Len(r.snap))

\* logsToRetry.slice(i, i + batchSize), with i counted from 1.
Chunk(r) ==
    SubSeq(r.snap, r.i,
           IF r.i + BatchSize - 1 < Len(r.snap) THEN r.i + BatchSize - 1
           ELSE Len(r.snap))

CloseNeverResolves(m) == m

\* close() after "await this.retryFailedLogs()".
CloseResolve(m) == [m EXCEPT !.cl.pc = "resolved"]

CloseSkipsRetry(m) == CloseResolve(m)

\* close() after "await this.flushLogs()": the final retry pass.
CloseAfterFlush(m) ==
    LET r == RetryFailedLogs(m, TRUE)
    IN  IF r.stuck THEN r
        ELSE IF \E c \in CycleSlots : r.rc[c].awaited
             THEN [r EXCEPT !.cl.pc = "retrying"]
             ELSE CloseResolve(r)

\* The outer loop's i += batchSize, and the return of retryFailedLogs.
NextChunk(m, c) ==
    LET r == m.rc[c]
        ni == r.i + BatchSize
    IN  IF ni <= Len(r.snap)
        THEN [m EXCEPT !.rc[c] = [r EXCEPT !.pc = "backoff", !.i = ni,
                                           !.attempt = 0, !.delay = Backoff(0),
                                           !.j = 0, !.existing = << >>]]
        ELSE LET m1 == [m EXCEPT !.rc[c] = IdleCycle]
             IN  IF r.awaited THEN CloseResolve(m1) ELSE m1

RetryBackupFrom(m, c, j) ==
    LET b == BackupLoop(Chunk(m.rc[c]), j, m.rq, m.flag)
        m1 == [m EXCEPT !.rq = b.rq, !.flag = b.flag]
    IN  IF b.reading
        THEN [m1 EXCEPT !.rc[c].pc = "bkRead", !.rc[c].j = b.j]
        ELSE NextChunk(m1, c)

\* --------------------------------------------------------- flush scheduler
FlushBlockedSerial(lq, ab) == Len(lq) = 0 \/ ab >= 1

FlushBlocked(lq, ab) == Len(lq) = 0 \/ ab >= MaxConcurrentBatches

FlushPrefixWhole(lq) == Len(lq)

FlushPrefixLen(lq) == IF BatchSize < Len(lq) THEN BatchSize ELSE Len(lq)

FreeFlush(m) == {t \in FlushSlots : m.ft[t].pc = "idle"}

FlushDeclinedDrops(m) == [m EXCEPT !.lq = Drop(@, 1)]

\* flushLogs returning at its guard.
FlushDeclined(m) == m

\* flushLogs up to its "await this.sendLogs(validatedLogs)".
FlushLogs(m, awaited) ==
    IF FlushBlocked(m.lq, m.ab) THEN FlushDeclined(m)
    ELSE LET n == FlushPrefixLen(m.lq)
             validatedLogs == Validated(Take(m.lq, n))
             rest == Drop(m.lq, n)
         IN  IF validatedLogs = << >> THEN [m EXCEPT !.lq = rest]
             ELSE IF FreeFlush(m) = {} THEN [m EXCEPT !.stuck = TRUE]
             ELSE LET t == CHOOSE x \in FreeFlush(m) : \A y \in FreeFlush(m) : x <= y
                  IN  [m EXCEPT !.lq = rest,
                                !.ab = @ + 1,
                                !.att = Bump(@, validatedLogs),
                                !.ft[t] = [pc |-> "sending", batch |-> validatedLogs,
                                           j |-> 0, existing |-> << >>,
                                           awaited |-> awaited]]

FlushFinishKeepsCount(m, t) ==
    LET m1 == [m EXCEPT !.ft[t] = IdleFlush]
    IN  IF m.ft[t].awaited THEN CloseAfterFlush(m1) ELSE m1

\* The finally block of flushLogs, and its return.
FlushFinish(m, t) ==
    LET m1 == [m EXCEPT !.ab = @ - 1, !.ft[t] = IdleFlush]
    IN  IF m.ft[t].awaited THEN CloseAfterFlush(m1) ELSE m1

FlushBackupFrom(m, t, j) ==
    LET b == BackupLoop(m.ft[t].batch, j, m.rq, m.flag)
        m1 == [m EXCEPT !.rq = b.rq, !.flag = b.flag]
    IN  IF b.reading
        THEN [m1 EXCEPT !.ft[t].pc = "bkRead", !.ft[t].j = b.j]
        ELSE FlushFinish(m1, t)

\* close() from "await this.flushLogs()" on.
CloseDrain(m) ==
    LET m1 == FlushLogs(m, TRUE)
    IN  IF m1.stuck THEN m1
        ELSE IF \E t \in FlushSlots : m1.ft[t].awaited
             THEN [m1 EXCEPT !.cl.pc = "flushing"]
             ELSE CloseAfterFlush(m1)

\* ================================================================= actions
\* log(info, callback)
SizeTriggerLate(isInit, lq) == isInit /\ Len(lq) > BatchSize

SizeTriggerAlways(isInit, lq) == Len(lq) >= BatchSize

SizeTrigger(isInit, lq) == isInit /\ Len(lq) >= BatchSize

NewEntry(id, valid) == [id |-> id, valid |-> valid, sanitized |-> FALSE]

LogUnshift(lq, entry) == <<entry>> \o lq

\* this.logQueue.push(logEntry)
LogPush(lq, entry) == Append(lq, entry)

Log(valid) ==
    /\ nextId <= lim.logs
    /\ LET m0 == [Cur EXCEPT !.lq = LogPush(@, NewEntry(nextId, valid))]
           m1 == IF SizeTrigger(initialized, m0.lq) THEN FlushLogs(m0, FALSE) ELSE m0
       IN  Commit(m1)
    /\ nextId' = nextId + 1
    /\ callbacks' = callbacks + 1
    /\ validLogged' = IF valid THEN validLogged \cup {nextId} ELSE validLogged
    /\ UNCHANGED <<initialized, flushTimer, retryTimer, armedFlush, armedRetry,
                   file, ic, delivered, backupWrites, loads, writeFails, errors, sendFails, initCalls, lim, permFlushed, exhausted, lastPost>>

FlushTickIdle == armedFlush # {} /\ UNCHANGED vars

\* The setInterval callback of startFlushTimer.
FlushTick ==
    /\ armedFlush # {}
    /\ Commit(FlushLogs(Cur, FALSE))
    /\ UNCHANGED <<initialized, flushTimer, retryTimer, armedFlush, armedRetry,
                   file, ic, nextId, callbacks, delivered, backupWrites, loads,
                   writeFails, errors, sendFails, initCalls, lim, validLogged, permFlushed, exhausted, lastPost>>

\* The setInterval callback of startRetryTimer.
RetryTick ==
    /\ armedRetry # {}
    /\ Commit(RetryFailedLogs(Cur, FALSE))
    /\ UNCHANGED <<initialized, flushTimer, retryTimer, armedFlush, armedRetry,
                   file, ic, nextId, callbacks, delivered, backupWrites, loads,
                   writeFails, errors, sendFails, initCalls, lim, validLogged, permFlushed, exhausted, lastPost>>

RetryPushFront(rq, batch) == batch \o rq

\* this.retryQueue.push(...validatedLogs)
RetryPush(rq, batch) == rq \o batch

\* flushLogs: "await this.sendLogs(validatedLogs)" settles.
FlushSendDone(t, res) ==
    /\ ft[t].pc = "sending"
    /\ res = 200 \/ sendFails < lim.sendFails
    /\ sendFails' = IF res = 200 THEN sendFails ELSE sendFails + 1
    /\ LET kind == Classify(res)
           batch == ft[t].batch
       IN  /\ permFlushed' = IF IsPermanent(kind) THEN permFlushed \cup Ids(batch)
                           ELSE permFlushed
           /\ delivered' = IF kind = "ok" THEN Bump(delivered, batch) ELSE delivered
           /\ Commit(IF kind = "ok" THEN FlushFinish(Cur, t)
                     ELSE IF IsPermanent(kind) THEN FlushBackupFrom(Cur, t, 1)
                     ELSE FlushFinish([Cur EXCEPT !.rq = RetryPush(@, batch)], t))
    /\ lastPost' = IF lim.observe THEN <<res>> ELSE lastPost
    /\ UNCHANGED <<initialized, flushTimer, retryTimer, armedFlush, armedRetry,
                   file, ic, nextId, callbacks, backupWrites, loads, writeFails,
                   errors, initCalls, lim, validLogged, exhausted>>

\* backupFailedLog called by flushLogs: loadBackupLogsFromFile returns.
\* existingLogs.push(log) throws a TypeError on a value that is no array; the
\* catch block emits 'error' and the finally block clears the flag.
FlushReadDone(t) ==
    /\ ft[t].pc = "bkRead"
    /\ LET existingLogs == LoadBackupLogsFromFile(file)
       IN  IF existingLogs.kind = "array"
           THEN /\ Commit([Cur EXCEPT !.ft[t].pc = "bkWrite",
                                      !.ft[t].existing =
                                          Append(existingLogs.logs, ft[t].batch[ft[t].j])])
                /\ UNCHANGED errors
           ELSE /\ Commit(FlushBackupFrom([Cur EXCEPT !.flag = FALSE], t, ft[t].j + 1))
                /\ errors' = errors + 1
    /\ UNCHANGED <<initialized, flushTimer, retryTimer, armedFlush, armedRetry,
                   file, ic, nextId, callbacks, delivered, backupWrites, loads,
                   writeFails, sendFails, initCalls, lim, validLogged, permFlushed,
                   exhausted, lastPost>>

\* backupFailedLog called by flushLogs: fs.writeFile settles.  A failed write is
\* reported with emit('error'), which the logger owning the transport listens
\* to, so the caller's loop goes on.
FlushWriteDone(t, ok) ==
    /\ ft[t].pc = "bkWrite"
    /\ ok \/ writeFails < lim.writeFails
    /\ file' = IF ok THEN Stringify(ft[t].existing) ELSE file
    /\ backupWrites' = IF ok THEN Bump(backupWrites, <<ft[t].batch[ft[t].j]>>)
                       ELSE backupWrites
    /\ writeFails' = IF ok THEN writeFails ELSE writeFails + 1
    /\ errors' = IF ok THEN errors ELSE errors + 1
    /\ Commit(FlushBackupFrom([Cur EXCEPT !.flag = FALSE, !.ft[t].existing = << >>],
                              t, ft[t].j + 1))
    /\ UNCHANGED <<initialized, flushTimer, retryTimer, armedFlush, armedRetry,
                   ic, nextId, callbacks, delivered, loads, sendFails, initCalls, lim, validLogged, permFlushed, exhausted, lastPost>>

\* retryFailedLogs: the backoff sleep of rc[c].delay ms ends and
\* sendLogs(batch) is called.
RetryBackoffDone(c) ==
    /\ rc[c].pc = "backoff"
    /\ rc' = [rc EXCEPT ![c].pc = "sending"]
    /\ attempts' = Bump(attempts, Chunk(rc[c]))
    /\ UNCHANGED <<logQueue, retryQueue, activeBatches, initialized,
                   backupWriteInProgress, flushTimer, retryTimer, armedFlush,
                   armedRetry, file, ft, ic, cl, nextId, callbacks, delivered,
                   backupWrites, loads, writeFails, errors, sendFails, initCalls, lim, validLogged, permFlushed, exhausted, lastPost>>

\* retryFailedLogs: "await this.sendLogs(batch)" settles.
RetrySendDone(c, res) ==
    /\ rc[c].pc = "sending"
    /\ res = 200 \/ sendFails < lim.sendFails
    /\ sendFails' = IF res = 200 THEN sendFails ELSE sendFails + 1
    /\ LET kind == Classify(res)
           batch == Chunk(rc[c])
       IN  /\ delivered' = IF kind = "ok" THEN Bump(delivered, batch) ELSE delivered
           /\ exhausted' = IF kind = "transient" /\ rc[c].attempt + 1 >= RetryLimit
                          THEN exhausted \cup Ids(batch) ELSE exhausted
           /\ Commit(IF kind = "ok" THEN NextChunk(Cur, c)
                     ELSE IF IsPermanent(kind) THEN RetryBackupFrom(Cur, c, 1)
                     ELSE IF rc[c].attempt + 1 < RetryLimit
                          THEN [Cur EXCEPT !.rc[c].pc = "backoff",
                                           !.rc[c].attempt = @ + 1,
                                           !.rc[c].delay = Backoff(rc[c].attempt + 1)]
                          ELSE RetryBackupFrom(Cur, c, 1))
    /\ lastPost' = IF lim.observe THEN <<res>> ELSE lastPost
    /\ UNCHANGED <<initialized, flushTimer, retryTimer, armedFlush, armedRetry,
                   file, ic, nextId, callbacks, backupWrites, loads, writeFails,
                   errors, initCalls, lim, validLogged, permFlushed>>

\* backupFailedLog called by retryFailedLogs: loadBackupLogsFromFile returns.
RetryReadDone(c) ==
    /\ rc[c].pc = "bkRead"
    /\ LET existingLogs == LoadBackupLogsFromFile(file)
       IN  IF existingLogs.kind = "array"
           THEN /\ Commit([Cur EXCEPT !.rc[c].pc = "bkWrite",
                                      !.rc[c].existing =
                                          Append(existingLogs.logs, Chunk(rc[c])[rc[c].j])])
                /\ UNCHANGED errors
           ELSE /\ Commit(RetryBackupFrom([Cur EXCEPT !.flag = FALSE], c, rc[c].j + 1))
                /\ errors' = errors + 1
    /\ UNCHANGED <<initialized, flushTimer, retryTimer, armedFlush, armedRetry,
                   file, ic, nextId, callbacks, delivered, backupWrites, loads,
                   writeFails, sendFails, initCalls, lim, validLogged, permFlushed,
                   exhausted, lastPost>>

\* backupFailedLog called by retryFailedLogs: fs.writeFile settles.
RetryWriteDone(c, ok) ==
    /\ rc[c].pc = "bkWrite"
    /\ ok \/ writeFails < lim.writeFails
    /\ file' = IF ok THEN Stringify(rc[c].existing) ELSE file
    /\ backupWrites' = IF ok THEN Bump(backupWrites, <<Chunk(rc[c])[rc[c].j]>>)
                       ELSE backupWrites
    /\ writeFails' = IF ok THEN writeFails ELSE writeFails + 1
    /\ errors' = IF ok THEN errors ELSE errors + 1
    /\ Commit(RetryBackupFrom([Cur EXCEPT !.flag = FALSE, !.rc[c].existing = << >>],
                              c, rc[c].j + 1))
    /\ UNCHANGED <<initialized, flushTimer, retryTimer, armedFlush, armedRetry,
                   ic, nextId, callbacks, delivered, loads, sendFails, initCalls, lim, validLogged, permFlushed, exhausted, lastPost>>

\* ------------------------------------------------------ lifecycle: init()
\* init() called: the guard, then loadBackupLogs awaits the file read.  A call
\* that finds initialized set returns at once; a call that has returned or
\* was rejected leaves its slot to the next call.
InitCall(k) ==
    /\ ic[k] = "idle"
    /\ \A u \in InitSlots : u < k => ic[u] # "idle"
    /\ initialized \/ initCalls < lim.inits
    /\ ic' = [ic EXCEPT ![k] = IF initialized THEN "idle" ELSE "reading"]
    /\ initCalls' = IF initialized THEN initCalls ELSE initCalls + 1
    /\ UNCHANGED <<logQueue, retryQueue, activeBatches, initialized,
                   backupWriteInProgress, flushTimer, retryTimer, armedFlush,
                   armedRetry, file, ft, rc, cl, nextId, callbacks, attempts,
                   delivered, backupWrites, loads, writeFails, errors, sendFails, lim, validLogged, permFlushed, exhausted, lastPost>>

\* init() after "await this.loadBackupLogs()": initialized, then both timers.
InitFinish(k) ==
    /\ initialized' = TRUE
    /\ flushTimer' = k
    /\ armedFlush' = armedFlush \cup {k}
    /\ retryTimer' = k
    /\ armedRetry' = armedRetry \cup {k}
    /\ ic' = [ic EXCEPT ![k] = "idle"]

\* loadBackupLogs: loadBackupLogsFromFile returns.  "backupLogs.length" throws
\* a TypeError on null, which rejects init(); it is undefined, and not > 0, on
\* a number or an object; "push(...backupLogs)" spreads the elements of an
\* array and the characters of a string.
InitReadDone(k) ==
    /\ ic[k] = "reading"
    /\ LET backupLogs == LoadBackupLogsFromFile(file)
       IN  IF backupLogs.kind = "null"
           THEN /\ ic' = [ic EXCEPT ![k] = "idle"]
                /\ UNCHANGED <<logQueue, loads, permFlushed, initialized, flushTimer,
                               retryTimer, armedFlush, armedRetry>>
           ELSE IF backupLogs.kind \in {"array", "string"} /\ Len(backupLogs.logs) > 0
           THEN /\ logQueue' = logQueue \o backupLogs.logs
                /\ loads' = loads + 1
                /\ permFlushed' = permFlushed \ Ids(backupLogs.logs)
                /\ ic' = [ic EXCEPT ![k] = "writing"]
                /\ UNCHANGED <<initialized, flushTimer, retryTimer, armedFlush,
                               armedRetry>>
           ELSE /\ InitFinish(k)
                /\ UNCHANGED <<logQueue, loads, permFlushed>>
    /\ UNCHANGED <<retryQueue, activeBatches, backupWriteInProgress, file, ft, rc,
                   cl, nextId, callbacks, attempts, delivered, backupWrites,
                   writeFails, errors, sendFails, initCalls, lim, validLogged, exhausted, lastPost>>

KeptFile == file

\* JSON.stringify([], null, 2), what loadBackupLogs writes to the file.
TruncatedFile == Stringify(<< >>)

\* loadBackupLogs: the fs.writeFile of "[]" settles; a failure rejects init().
InitWriteDone(k, ok) ==
    /\ ic[k] = "writing"
    /\ ok \/ writeFails < lim.writeFails
    /\ IF ok
       THEN /\ file' = TruncatedFile
            /\ InitFinish(k)
            /\ UNCHANGED writeFails
       ELSE /\ ic' = [ic EXCEPT ![k] = "idle"]
            /\ writeFails' = writeFails + 1
            /\ UNCHANGED <<file, initialized, flushTimer, retryTimer, armedFlush,
                           armedRetry>>
    /\ UNCHANGED <<logQueue, retryQueue, activeBatches, backupWriteInProgress, ft,
                   rc, cl, nextId, callbacks, attempts, delivered, backupWrites,
                   loads, errors, sendFails, initCalls, lim, validLogged, permFlushed, exhausted, lastPost>>

\* ----------------------------------------------------- lifecycle: close()
\* Records a running flushLogs call still holds: its batch while the send is
\* outstanding, then the records its backup loop has not finished with.
FlushHolds(f) ==
    IF f.pc = "idle" THEN << >>
    ELSE IF f.pc = "sending" THEN f.batch
    ELSE Drop(f.batch, f.j - 1)

\* Records a running retry cycle still holds in its snapshot logsToRetry.
CycleHolds(r) ==
    IF r.pc = "idle" THEN << >>
    ELSE IF r.pc \in {"backoff", "sending"} THEN Drop(r.snap, r.i - 1)
    ELSE Drop(r.snap, r.i - 1 + r.j - 1)

InMemoryIds ==
    Ids(logQueue) \cup Ids(retryQueue)
        \cup UNION {Ids(FlushHolds(ft[t])) : t \in FlushSlots}
        \cup UNION {Ids(CycleHolds(rc[c])) : c \in CycleSlots}

\* close() called: both timers cleared, then the wait for activeBatches = 0.
CloseCall ==
    /\ cl.pc \in {"idle", "resolved"}
    /\ cl.calls < lim.closes
    /\ armedFlush' = armedFlush \ {flushTimer}
    /\ flushTimer' = 0
    /\ armedRetry' = armedRetry \ {retryTimer}
    /\ retryTimer' = 0
    /\ LET m0 == [Cur EXCEPT !.cl = [pc |-> "polling", calls |-> cl.calls + 1,
                                     held |-> InMemoryIds]]
       IN  Commit(IF activeBatches > 0 THEN m0 ELSE CloseDrain(m0))
    /\ UNCHANGED <<initialized, file, ic, nextId, callbacks, delivered,
                   backupWrites, loads, writeFails, errors, sendFails, initCalls, lim, validLogged, permFlushed, exhausted, lastPost>>

\* close(): a 50 ms sleep ends with activeBatches = 0.
ClosePoll ==
    /\ cl.pc = "polling"
    /\ activeBatches = 0
    /\ Commit(CloseDrain(Cur))
    /\ UNCHANGED <<initialized, flushTimer, retryTimer, armedFlush, armedRetry,
                   file, ic, nextId, callbacks, delivered, backupWrites, loads,
                   writeFails, errors, sendFails, initCalls, lim, validLogged, permFlushed, exhausted, lastPost>>

\* ----------------------------------------------------------- specification
Next ==
    \/ \E valid \in BOOLEAN : Log(valid)
    \/ FlushTick
    \/ RetryTick
    \/ \E t \in FlushSlots, res \in TransportResults : FlushSendDone(t, res)
    \/ \E t \in FlushSlots : FlushReadDone(t)
    \/ \E t \in FlushSlots, ok \in BOOLEAN : FlushWriteDone(t, ok)
    \/ \E c \in CycleSlots : RetryBackoffDone(c)
    \/ \E c \in CycleSlots, res \in TransportResults : RetrySendDone(c, res)
    \/ \E c \in CycleSlots : RetryReadDone(c)
    \/ \E c \in CycleSlots, ok \in BOOLEAN : RetryWriteDone(c, ok)
    \/ \E k \in InitSlots : InitCall(k)
    \/ \E k \in InitSlots : InitReadDone(k)
    \/ \E k \in InitSlots, ok \in BOOLEAN : InitWriteDone(k, ok)
    \/ CloseCall
    \/ ClosePoll

\* From the constructor on: startup (overlapping init() calls, a backup file
\* left by an earlier process, failing file writes), traffic and shutdown.
LimLife ==
    [logs |-> LifeLogs, inits |-> LifeInits, closes |-> LifeCloses,
     sendFails |-> LifeSendFails, writeFails |-> LifeWriteFails,
     startup |-> NoFile, observe |-> FALSE]

Init == InitWith(LimLife)

Spec == Init /\ [][Next]_vars

\* The engine at work: the state one init() call leaves when it finds no
\* backup file (initialized set, both timers armed), then traffic and close().
LimRun ==
    [logs |-> RunLogs, inits |-> 1, closes |-> RunCloses,
     sendFails |-> RunSendFails, writeFails |-> RunWriteFails,
     startup |-> NoFile, observe |-> FALSE]

\* The state one init() call leaves when it finds no backup file, for an
\* environment limited by l: initialized set, both timers armed.
AfterInit(l) ==
    /\ lim = l
    /\ initCalls = 1
    /\ logQueue = << >>
    /\ retryQueue = << >>
    /\ activeBatches = 0
    /\ initialized = TRUE
    /\ backupWriteInProgress = FALSE
    /\ flushTimer = 1
    /\ retryTimer = 1
    /\ armedFlush = {1}
    /\ armedRetry = {1}
    /\ file = NoFile
    /\ ft = [t \in FlushSlots |-> IdleFlush]
    /\ rc = [c \in CycleSlots |-> IdleCycle]
    /\ ic = [k \in InitSlots |-> "idle"]
    /\ cl = [pc |-> "idle", calls |-> 0, held |-> {}]
    /\ nextId = 1
    /\ callbacks = 0
    /\ attempts = [x \in AllIds |-> 0]
    /\ delivered = [x \in AllIds |-> 0]
    /\ backupWrites = [x \in AllIds |-> 0]
    /\ loads = 0
    /\ validLogged = {}
    /\ permFlushed = {}
    /\ writeFails = 0
    /\ sendFails = 0
    /\ errors = 0
    /\ exhausted = {}
    /\ lastPost = << >>

InitRun == AfterInit(LimRun)

NextRun ==
    \/ \E valid \in BOOLEAN : Log(valid)
    \/ FlushTick
    \/ RetryTick
    \/ \E t \in FlushSlots, res \in TransportResults : FlushSendDone(t, res)
    \/ \E t \in FlushSlots : FlushReadDone(t)
    \/ \E t \in FlushSlots, ok \in BOOLEAN : FlushWriteDone(t, ok)
    \/ \E c \in CycleSlots : RetryBackoffDone(c)
    \/ \E c \in CycleSlots, res \in TransportResults : RetrySendDone(c, res)
    \/ \E c \in CycleSlots : RetryReadDone(c)
    \/ \E c \in CycleSlots, ok \in BOOLEAN : RetryWriteDone(c, ok)
    \/ CloseCall
    \/ ClosePoll

SpecRun == InitRun /\ [][NextRun]_vars

\* Traffic around the lifecycle: log() before init(), at the concurrency cap,
\* while sends fail and after close(), on a machine with no backup file.
LimLog ==
    [logs |-> LogLogs, inits |-> 1, closes |-> LogCloses,
     sendFails |-> LogSendFails, writeFails |-> 0,
     startup |-> NoFile, observe |-> FALSE]

InitLog == InitWith(LimLog) /\ lim.startup = NoFile

SpecLog == InitLog /\ [][Next]_vars

\* The engine at work with no close() call, so that both timers stay armed,
\* under the claim's assumptions: the flush timer keeps firing, every POST
\* settles, and so does every file operation of a backup (flushLogs keeps its
\* batch slot until its backup loop ends).
LimLive ==
    [logs |-> LiveLogs, inits |-> 1, closes |-> 0,
     sendFails |-> LiveSendFails, writeFails |-> 0,
     startup |-> NoFile, observe |-> FALSE]

InitLive == AfterInit(LimLive)

NextLive ==
    \/ \E valid \in BOOLEAN : Log(valid)
    \/ FlushTick
    \/ RetryTick
    \/ \E t \in FlushSlots, res \in TransportResults : FlushSendDone(t, res)
    \/ \E t \in FlushSlots : FlushReadDone(t)
    \/ \E t \in FlushSlots, ok \in BOOLEAN : FlushWriteDone(t, ok)
    \/ \E c \in CycleSlots : RetryBackoffDone(c)
    \/ \E c \in CycleSlots, res \in TransportResults : RetrySendDone(c, res)
    \/ \E c \in CycleSlots : RetryReadDone(c)
    \/ \E c \in CycleSlots, ok \in BOOLEAN : RetryWriteDone(c, ok)

FairLive ==
    /\ WF_vars(FlushTick)
    /\ \A t \in FlushSlots :
           /\ WF_vars(\E res \in TransportResults : FlushSendDone(t, res))
           /\ WF_vars(FlushReadDone(t))
           /\ WF_vars(\E ok \in BOOLEAN : FlushWriteDone(t, ok))

SpecLive == InitLive /\ [][NextLive]_vars /\ FairLive

\* The retry engine at work with no close() call: enough failing POSTs for a
\* chunk to run out of its retryLimit attempts while another batch fails.
LimRetry ==
    [logs |-> RetryLogs, inits |-> 1, closes |-> 0,
     sendFails |-> RetrySendFails, writeFails |-> 0,
     startup |-> NoFile, observe |-> FALSE]

InitRetry == AfterInit(LimRetry)

SpecRetry == InitRetry /\ [][NextLive]_vars

\* The backup store on any file: the process finds no file, a file of records,
\* or a file that holds no array of records; then the whole lifecycle.
LimStore ==
    [logs |-> StoreLogs, inits |-> 1, closes |-> StoreCloses,
     sendFails |-> StoreSendFails, writeFails |-> 0,
     startup |-> NoFile, observe |-> FALSE]

InitStore == InitFrom(LimStore, StartupFiles \cup OddFiles)

SpecStore == InitStore /\ [][Next]_vars

\* The engine at work with more log() calls than two batches hold, so that the
\* ingestion queue grows beyond batchSize while activeBatches is at the cap.
LimFifo ==
    [logs |-> FifoLogs, inits |-> 1, closes |-> FifoCloses,
     sendFails |-> FifoSendFails, writeFails |-> 0,
     startup |-> NoFile, observe |-> FALSE]

InitFifo == AfterInit(LimFifo)

SpecFifo == InitFifo /\ [][NextRun]_vars

\* The sender observed: the engine at work with no close() call, the result of
\* every POST recorded in lastPost.
LimSender ==
    [logs |-> SenderLogs, inits |-> 1, closes |-> 0,
     sendFails |-> SenderSendFails, writeFails |-> 0,
     startup |-> NoFile, observe |-> TRUE]

InitSender == AfterInit(LimSender)

SpecSender == InitSender /\ [][NextLive]_vars

\* close() under the claim's assumptions: every POST, every file operation and
\* every sleep of the engine settles (the 50 ms sleep of the polling loop
\* included); the timers and the caller of log() owe nothing.
LimClose ==
    [logs |-> CloseLogs, inits |-> 1, closes |-> 1,
     sendFails |-> CloseSendFails, writeFails |-> 0,
     startup |-> NoFile, observe |-> FALSE]

InitClose == AfterInit(LimClose)

FairClose ==
    /\ WF_vars(ClosePoll)
    /\ \A t \in FlushSlots :
           /\ WF_vars(\E res \in TransportResults : FlushSendDone(t, res))
           /\ WF_vars(FlushReadDone(t))
           /\ WF_vars(\E ok \in BOOLEAN : FlushWriteDone(t, ok))
    /\ \A c \in CycleSlots :
           /\ WF_vars(RetryBackoffDone(c))
           /\ WF_vars(\E res \in TransportResults : RetrySendDone(c, res))
           /\ WF_vars(RetryReadDone(c))
           /\ WF_vars(\E ok \in BOOLEAN : RetryWriteDone(c, ok))

SpecClose == InitClose /\ [][NextRun]_vars /\ FairClose

\* Recovery of any array of records: the process finds no file, a file its
\* predecessor wrote, or a file of raw records; then the whole lifecycle.
LimRecover ==
    [logs |-> RecoverLogs, inits |-> 1, closes |-> RecoverCloses,
     sendFails |-> RecoverSendFails, writeFails |-> 0,
     startup |-> NoFile, observe |-> FALSE]

InitRecover == InitFrom(LimRecover, StartupFiles \cup RawFiles)

SpecRecover == InitRecover /\ [][Next]_vars

\* ============================================================== properties
\* Where a record is: the number of its copies in each of the four places.
RECURSIVE SumOver(_, _)
SumOver(f, S) ==
    IF S = {} THEN 0
    ELSE LET x == CHOOSE y \in S : TRUE IN f[x] + SumOver(f, S \ {x})

InFlight(id) ==
    SumOver([t \in FlushSlots |-> SeqCount(FlushHolds(ft[t]), id)], FlushSlots)
        + SumOver([c \in CycleSlots |-> SeqCount(CycleHolds(rc[c]), id)], CycleSlots)

Copies(id) ==
    SeqCount(logQueue, id) + SeqCount(retryQueue, id) + SeqCount(FileLogs(file), id)
        + InFlight(id)

\* Sends that have been issued and have not settled.
OutstandingSends ==
    Cardinality({t \in FlushSlots : ft[t].pc = "sending"})
        + Cardinality({c \in CycleSlots : rc[c].pc = "sending"})

\* backupFailedLog calls between the start of their file read and the end of
\* their file write.
BackupWriters ==
    Cardinality({t \in FlushSlots : ft[t].pc \in {"bkRead", "bkWrite"}})
        + Cardinality({c \in CycleSlots : rc[c].pc \in {"bkRead", "bkWrite"}})

\* C1: every valid record enqueued with log() and not yet delivered is held
\* in exactly one of: ingestion queue, in-flight batch or retry snapshot,
\* retry queue, backup file -- never in none, never twice.
C1_ExactlyOnePlace ==
    \A id \in validLogged : delivered[id] = 0 => Copies(id) = 1

\* C2: when close() has resolved, none of the valid records that were in
\* memory when it was called is still in memory: each was delivered or is in
\* the backup file.
C2_CloseLeavesNothingInMemory ==
    cl.pc = "resolved" =>
        cl.held \cap (validLogged \cup Ids(FileLogs(lim.startup))) \cap InMemoryIds = {}

\* C3: at no time are two backupFailedLog read-modify-write sequences in
\* progress at once.
C3_BackupWritesExclusive == BackupWriters <= 1

\* C8: the number of outstanding sends, from flushLogs and retryFailedLogs
\* together, never exceeds maxConcurrentBatches.
C8_SendsWithinCap == OutstandingSends <= MaxConcurrentBatches

\* C9: whatever the number of init() calls, overlapping or not, the backup
\* records are appended to the ingestion queue once and one flush timer and
\* one retry timer are started, after initialized is set.
C9_InitIdempotent ==
    /\ loads <= 1
    /\ Cardinality(armedFlush) <= 1
    /\ Cardinality(armedRetry) <= 1
    /\ (armedFlush # {} \/ armedRetry # {}) => initialized

IdSeq(s) == [k \in 1..Len(s) |-> s[k].id]

\* A step of log(): the only action that advances nextId.
LogStep == nextId' = nextId + 1

\* Slots of the flushLogs calls a step starts (each issues one POST).
StartedFlushes == {t \in FlushSlots : ft[t].pc = "idle" /\ ft'[t].pc = "sending"}

\* C4 as claimed: after initialization an enqueue that leaves fewer than
\* batchSize records queued triggers no send, and the enqueue that makes the
\* queue length reach batchSize triggers exactly one send whose payload is
\* those batchSize records in insertion order.
C4_ReachingBatchSizeSendsOnce ==
    [][(LogStep /\ initialized) =>
         /\ Len(logQueue) + 1 < BatchSize => StartedFlushes = {}
         /\ Len(logQueue) + 1 = BatchSize =>
              \E t \in FlushSlots :
                  /\ StartedFlushes = {t}
                  /\ IdSeq(ft'[t].batch) = Append(IdSeq(logQueue), nextId)]_vars

\* C4 as amended: below batchSize no send; reaching batchSize with fewer than
\* maxConcurrentBatches batches in flight empties the queue into exactly one
\* send of the valid records among them, sanitized and in insertion order (no
\* send when none is valid); at the cap no send, the records stay queued.
C4_SizeTriggerUnderCap ==
    [][(LogStep /\ initialized) =>
         LET q == Append(logQueue, NewEntry(nextId, nextId \in validLogged'))
             payload == Validated(q)
         IN  /\ Len(q) < BatchSize =>
                  StartedFlushes = {} /\ attempts' = attempts /\ logQueue' = q
             /\ (Len(q) = BatchSize /\ activeBatches < MaxConcurrentBatches) =>
                  /\ logQueue' = << >>
                  /\ IF payload = << >> THEN StartedFlushes = {} /\ attempts' = attempts
                     ELSE \E t \in FlushSlots :
                              /\ StartedFlushes = {t}
                              /\ ft'[t].batch = payload
                              /\ attempts' = Bump(attempts, payload)
             /\ (Len(q) = BatchSize /\ activeBatches >= MaxConcurrentBatches) =>
                  StartedFlushes = {} /\ attempts' = attempts /\ logQueue' = q]_vars

\* C4 witness: a size-triggered send of the two records just enqueued.
C4_Witness ==
    /\ initialized
    /\ nextId = 3
    /\ logQueue = << >>
    /\ \E t \in FlushSlots : ft[t].pc = "sending" /\ IdSeq(ft[t].batch) = <<1, 2>>

\* C5: a record whose flush-time send failed permanently is never handed to
\* the retry path (no further send), is written to the backup exactly once,
\* and is then in the backup file.
C5_PermanentMeansBackupOnce ==
    \A id \in permFlushed :
        /\ SeqCount(retryQueue, id) = 0
        /\ \A c \in CycleSlots : SeqCount(CycleHolds(rc[c]), id) = 0
        /\ \/ \E t \in FlushSlots : /\ ft[t].pc \in {"bkRead", "bkWrite"}
                                    /\ SeqCount(FlushHolds(ft[t]), id) = 1
           \/ backupWrites[id] = 1 /\ SeqCount(FileLogs(file), id) = 1

\* C6: when a retry send succeeds, each record of the chunk that was never
\* written to the backup has now been delivered exactly once, still has no
\* backup write, and is left nowhere: not in the retry queue, not in the
\* backup file, not in any queue or batch.
C6_RetrySuccessDeliversOnce ==
    [][\A c \in CycleSlots :
         (rc[c].pc = "sending" /\ rc'[c] # rc[c] /\ delivered' # delivered) =>
             \A id \in Ids(Chunk(rc[c])) \cap LogIds :
                 backupWrites[id] = 0 =>
                     /\ delivered'[id] = 1
                     /\ backupWrites'[id] = 0
                     /\ SeqCount(retryQueue', id) = 0
                     /\ SeqCount(FileLogs(file'), id) = 0
                     /\ Copies(id)' = 0]_vars

\* C6 witness: a record sent twice (flush, then retry), delivered, never
\* backed up.
C6_Witness ==
    \E id \in LogIds :
        /\ attempts[id] = 2
        /\ delivered[id] = 1
        /\ backupWrites[id] = 0
        /\ sendFails = 1

\* C10: log() is enabled in every state (before init, at the concurrency cap,
\* while sends fail, after close), and a log() step appends the new record to
\* the tail of the ingestion queue (the flush it triggers may take the head of
\* the queue in the same step and start at most one send), invokes the
\* callback once, and waits for no send, no flush and no file operation: it
\* completes none and changes nothing else.
C10_LogNeverBlocks ==
    /\ [](nextId <= lim.logs => (ENABLED Log(TRUE)) /\ (ENABLED Log(FALSE)))
    /\ [][LogStep =>
            LET q == Append(logQueue, NewEntry(nextId, nextId \in validLogged'))
            IN  /\ callbacks' = callbacks + 1
                /\ \/ logQueue' = q /\ StartedFlushes = {}
                   \/ logQueue' = Drop(q, BatchSize) /\ Cardinality(StartedFlushes) <= 1
                /\ \A t \in FlushSlots \ StartedFlushes : ft'[t] = ft[t]
                /\ rc' = rc /\ cl' = cl /\ ic' = ic
                /\ retryQueue' = retryQueue /\ file' = file
                /\ delivered' = delivered /\ backupWrites' = backupWrites]_vars

\* C10 witness: log() has returned with both batch slots taken; the records
\* it enqueued at the cap wait in the queue.
C10_Witness ==
    /\ initialized
    /\ activeBatches = MaxConcurrentBatches
    /\ Len(logQueue) >= BatchSize
    /\ callbacks = nextId - 1
    /\ logQueue[Len(logQueue)].id = nextId - 1

\* A step in which an init() call sets initialized and starts the timers.
InitCompletes == ~initialized /\ initialized'

\* A step that starts a timer-triggered or size-triggered flush (close() awaits
\* the flush it starts, the timers and log() do not).
RegularFlushStarts == \E t \in StartedFlushes : ~ft'[t].awaited

\* C7 as claimed: the startup records are loaded and the file is truncated
\* before any timer-triggered or size-triggered flush sends anything, and when
\* init() completes the recovered records are in the ingestion queue and no
\* longer in the file.
C7_LoadedAndQueuedAtInit ==
    [][/\ RegularFlushStarts => (FileLogs(lim.startup) # << >> => loads >= 1)
       /\ (InitCompletes /\ FileLogs(lim.startup) # << >>) =>
              /\ \A id \in Ids(FileLogs(lim.startup)) : SeqCount(logQueue', id) >= 1
              /\ \A id \in Ids(FileLogs(lim.startup)) : SeqCount(FileLogs(file'), id) = 0]_vars

\* C7 as amended: a timer- or size-triggered flush starts only once initialized
\* is set; initialized is set only after the startup records were appended to
\* the ingestion queue (each load appends the file's content to the tail), in
\* a step that leaves the file truncated to [].  The records need not still be
\* queued then: a close() call may have flushed them meanwhile.
C7_LoadedBeforeRegularFlush ==
    /\ [](initialized => (FileLogs(lim.startup) # << >> => loads >= 1))
    /\ [][/\ RegularFlushStarts => initialized
          /\ InitCompletes => FileLogs(file') = << >>
          /\ loads' # loads =>
                 /\ loads' = loads + 1
                 /\ FileLogs(file) # << >>
                 /\ logQueue' = logQueue \o FileLogs(file)]_vars

\* C7 witness: init() has completed on a backup file holding a record; the
\* record is queued, the file is empty, nothing has been sent.
C7_Witness ==
    /\ initialized
    /\ FileLogs(lim.startup) # << >>
    /\ loads = 1
    /\ file = Stringify(<< >>)
    /\ IdSeq(logQueue) = <<0>>
    /\ attempts[0] = 0

C12_EveryRecordReachesSender ==
    \A id \in LogIds :
        (SeqCount(logQueue, id) > 0) ~> (SeqCount(logQueue, id) = 0 /\ attempts[id] >= 1)

\* C12 as amended: every record in the ingestion queue eventually leaves it;
\* a valid record has then been handed to the Sender, an invalid one has been
\* dropped by the flush without any send.
C12_QueueDrainsValidSent ==
    /\ \A id \in LogIds :
           (SeqCount(logQueue, id) > 0) ~>
               (SeqCount(logQueue, id) = 0 /\ (id \in validLogged <=> attempts[id] >= 1))
    /\ [](\A id \in LogIds \ validLogged : attempts[id] = 0)

\* C12 witness: one valid record, fewer than batchSize, has left the queue by
\* a timer flush (log() triggered none) and its POST is outstanding.
C12_Witness ==
    /\ nextId = 2
    /\ validLogged = {1}
    /\ logQueue = << >>
    /\ attempts[1] = 1
    /\ \E t \in FlushSlots : ft[t].pc = "sending" /\ IdSeq(ft[t].batch) = <<1>>

\* C13: no record of a chunk that ran out of its retryLimit attempts is
\* dropped: it is in the backup file, or still held by the backup loop of its
\* cycle (the write is on its way), or, when backupFailedLog found a write in
\* progress, back in the retry path, from which it is delivered or backed up
\* later.  It is never in no place at all without having been delivered.
C13_ExhaustedNeverDropped ==
    \A id \in exhausted : delivered[id] >= 1 \/ Copies(id) >= 1

\* C14: while a chunk sleeps or is being sent its attempt index is below
\* retryLimit (at most retryLimit POSTs per chunk and cycle); the sleep before
\* attempt k lasts backoffFactor * 2^k; the first sleep of a chunk lasts
\* backoffFactor and each further sleep of the chunk is twice the one before;
\* every POST of a cycle is issued at the end of such a sleep.
C14_BackoffDoubles ==
    /\ [](\A c \in CycleSlots :
             rc[c].pc \in {"backoff", "sending"} =>
                 /\ rc[c].attempt < RetryLimit
                 /\ rc[c].delay = BackoffFactor * 2^(rc[c].attempt))
    /\ [][\A c \in CycleSlots :
             /\ (rc'[c].pc = "sending" /\ rc[c].pc # "sending") =>
                    /\ rc[c].pc = "backoff"
                    /\ rc'[c].delay = rc[c].delay /\ rc'[c].attempt = rc[c].attempt
             /\ (rc'[c].pc = "backoff" /\ rc[c].pc # "backoff") =>
                    IF rc[c].pc = "sending" /\ rc'[c].i = rc[c].i
                    THEN /\ rc'[c].attempt = rc[c].attempt + 1
                         /\ rc'[c].delay = 2 * rc[c].delay
                    ELSE /\ rc'[c].attempt = 0
                         /\ rc'[c].delay = BackoffFactor]_vars

\* C14 witness: the last attempt of a chunk (index retryLimit - 1 = 2) sleeps
\* 4 * backoffFactor after two failed attempts.
C14_Witness ==
    \E c \in CycleSlots :
        /\ rc[c].pc = "backoff"
        /\ rc[c].attempt = RetryLimit - 1
        /\ rc[c].delay = 4 * BackoffFactor

\* The record a backupFailedLog call that awaits its fs.writeFile is writing.
WritingFlush(t) == ft[t].batch[ft[t].j]
WritingCycle(c) == Chunk(rc[c])[rc[c].j]

\* A step in which the fs.writeFile of a running backupFailedLog call succeeds,
\* no other writer having changed the file since the call read it.
FlushWrote(t) ==
    /\ ft[t].pc = "bkWrite"
    /\ ft'[t] # ft[t]
    /\ backupWrites' # backupWrites
    /\ ft[t].existing = Append(LoadBackupLogsFromFile(file).logs, WritingFlush(t))

CycleWrote(c) ==
    /\ rc[c].pc = "bkWrite"
    /\ rc'[c] # rc[c]
    /\ backupWrites' # backupWrites
    /\ rc[c].existing = Append(LoadBackupLogsFromFile(file).logs, WritingCycle(c))

InitReads == \E k \in InitSlots : ic[k] = "reading" /\ ic'[k] # "reading"

\* C16: on a file that is missing or holds no array of records,
\* loadBackupLogsFromFile yields the empty sequence, and the init() call that
\* reads it leaves the ingestion queue unchanged and completes (it is not
\* rejected).
C16_OddFileLoadsNothing ==
    [][(InitReads /\ file \in OddFiles \cup {NoFile}) =>
           /\ LoadBackupLogsFromFile(file) = [kind |-> "array", logs |-> << >>]
           /\ logQueue' = logQueue
           /\ initialized']_vars

\* Records with a failed send behind them: a POST was issued with the record,
\* none has succeeded, and no POST with it is outstanding.
SendFailed(id) ==
    /\ attempts[id] >= 1
    /\ delivered[id] = 0
    /\ \A t \in FlushSlots : ft[t].pc = "sending" => SeqCount(ft[t].batch, id) = 0
    /\ \A c \in CycleSlots : rc[c].pc = "sending" => SeqCount(Chunk(rc[c]), id) = 0

\* C17: a failed send is absorbed: as long as no file write has failed, every
\* record with a failed send behind it is kept for retry (retry queue, or the
\* snapshot of a running retry cycle) or for the backup (backup file, or the
\* backup loop that is writing it), and the 'error' events emitted are exactly
\* the failed file operations: a delivery failure raises none.
C17_FailuresAbsorbed ==
    /\ errors = writeFails
    /\ writeFails = 0 =>
           \A id \in validLogged : SendFailed(id) => Copies(id) >= 1

\* A step in which close() is called.
CloseStep == cl'.calls = cl.calls + 1

\* Nothing queued and nothing in flight: both queues empty, no batch being
\* sent or backed up, no retry cycle running.
EngineIdle ==
    /\ logQueue = << >>
    /\ retryQueue = << >>
    /\ activeBatches = 0
    /\ \A t \in FlushSlots : ft[t].pc = "idle"
    /\ \A c \in CycleSlots : rc[c].pc = "idle"

\* C18: a close() call made after an earlier one has resolved, on an idle
\* engine, resolves in the same step, starts no send, writes nothing to the
\* backup and leaves the queues and the in-flight counter as they were (it
\* stops the timers an init() call may have started in between).
C18_SecondCloseIsNoOp ==
    [][(CloseStep /\ cl.pc = "resolved" /\ EngineIdle) =>
           /\ cl'.pc = "resolved"
           /\ logQueue' = logQueue /\ retryQueue' = retryQueue
           /\ activeBatches' = activeBatches
           /\ ft' = ft /\ rc' = rc
           /\ attempts' = attempts
           /\ file' = file /\ backupWrites' = backupWrites
           /\ backupWriteInProgress' = backupWriteInProgress]_vars

\* C18 witness: the second close() has resolved on an idle engine that had
\* delivered a record before.
C18_Witness ==
    /\ cl.calls = 2
    /\ cl.pc = "resolved"
    /\ EngineIdle
    /\ \E id \in LogIds : delivered[id] = 1

\* Ids of the first and of the second batchSize records log() creates.
FirstIds == [k \in 1..BatchSize |-> k]
SecondIds == [k \in 1..BatchSize |-> BatchSize + k]

\* The log() call that completes the first batch on an idle engine, and the one
\* that completes the second batch while the first, dispatched whole, is still
\* outstanding with nothing else going on: the records came back to back.
CompletesFirst ==
    /\ LogStep /\ initialized /\ nextId = BatchSize
    /\ IdSeq(logQueue) = SubSeq(FirstIds, 1, BatchSize - 1)
    /\ retryQueue = << >> /\ activeBatches = 0
    /\ \A t \in FlushSlots : ft[t].pc = "idle"
    /\ \A c \in CycleSlots : rc[c].pc = "idle"

CompletesSecond ==
    /\ LogStep /\ initialized /\ nextId = 2 * BatchSize
    /\ IdSeq(logQueue) = SubSeq(SecondIds, 1, BatchSize - 1)
    /\ retryQueue = << >> /\ activeBatches = 1
    /\ \E t \in FlushSlots : ft[t].pc = "sending" /\ IdSeq(ft[t].batch) = FirstIds
    /\ \A c \in CycleSlots : rc[c].pc = "idle"

\* Two sends are outstanding, the first batchSize records in one, the second
\* batchSize records in the other, in insertion order.
TwoFullBatchesOut ==
    /\ activeBatches = 2
    /\ logQueue = << >>
    /\ \E t1, t2 \in FlushSlots :
           /\ t1 # t2
           /\ ft[t1].pc = "sending" /\ IdSeq(ft[t1].batch) = FirstIds
           /\ ft[t2].pc = "sending" /\ IdSeq(ft[t2].batch) = SecondIds

FinalFlushStarts == \E t \in FlushSlots : ft'[t].awaited /\ ~ft[t].awaited
FinalRetryStarts == \E c \in CycleSlots : rc'[c].awaited /\ ~rc[c].awaited
FinalFlushFailsTransiently(t) ==
    /\ ft[t].awaited /\ ft[t].pc = "sending" /\ ft'[t].pc # "sending"
    /\ delivered' = delivered
    /\ ~(Ids(ft[t].batch) \subseteq permFlushed')

\* C20: the step in which close() is called clears both timer fields and
\* disarms their intervals; the final flush starts only when activeBatches is
\* 0, with the timers cleared; the final retry pass starts only when the final
\* flush has returned; and a batch whose POST fails transiently in the final
\* flush is, in that very step, in the snapshot of the final retry pass.
C20_CloseOrdersItsSteps ==
    /\ [][CloseStep =>
            /\ flushTimer' = 0 /\ retryTimer' = 0
            /\ flushTimer \notin armedFlush' /\ retryTimer \notin armedRetry']_vars
    /\ [][FinalFlushStarts =>
            /\ activeBatches = 0
            /\ flushTimer' = 0 /\ retryTimer' = 0
            /\ cl'.pc = "flushing"]_vars
    /\ [][FinalRetryStarts =>
            /\ \A t \in FlushSlots : ~ft'[t].awaited
            /\ cl'.pc = "retrying"
            /\ ~FinalFlushStarts]_vars
    /\ [](cl.pc \in {"retrying", "resolved"} => \A t \in FlushSlots : ~ft[t].awaited)
    /\ [][\A t \in FlushSlots :
             FinalFlushFailsTransiently(t) =>
                 \E c \in CycleSlots :
                     /\ rc'[c].awaited /\ ~rc[c].awaited
                     /\ Ids(ft[t].batch) \subseteq Ids(rc'[c].snap)
                     /\ retryQueue' = << >>]_vars

\* C20 witness: before init() (no timer, no size trigger) close() has flushed
\* the queue, the POST failed transiently, and the final retry pass holds the
\* batch.
C20_Witness ==
    /\ ~initialized
    /\ cl.pc = "retrying"
    /\ sendFails = 1
    /\ permFlushed = {}
    /\ \E c \in CycleSlots :
           /\ rc[c].awaited
           /\ rc[c].pc = "backoff"
           /\ \E id \in Ids(rc[c].snap) : attempts[id] = 1

\* A step of the running retry cycle c.
CycleStep(c) == rc[c].pc # "idle" /\ rc'[c] # rc[c]

PrefixOf(s, t) == Len(s) <= Len(t) /\ SubSeq(t, 1, Len(s)) = s

\* C22: a log() call whose flushLogs finds activeBatches at the cap appends its
\* record and changes nothing else of the engine; and no other step taken
\* while flushLogs would decline (queue empty, or activeBatches at the cap)
\* starts a send or removes a record from the ingestion queue.
C22_FlushNoOpUnderBackpressure ==
    /\ [][(LogStep /\ activeBatches >= MaxConcurrentBatches) =>
              /\ PrefixOf(logQueue, logQueue')
              /\ Len(logQueue') = Len(logQueue) + 1
              /\ logQueue'[Len(logQueue')].id = nextId
              /\ UNCHANGED <<retryQueue, activeBatches, file, ft, rc>>]_vars
    /\ [][(~LogStep /\ FlushBlocked(logQueue, activeBatches)) =>
              /\ PrefixOf(logQueue, logQueue')
              /\ StartedFlushes = {}]_vars

\* C22 witness: two batches are in flight (the cap) and the records logged
\* meanwhile, a full batch of them, wait in the ingestion queue in order.
C22_Witness ==
    /\ activeBatches = MaxConcurrentBatches
    /\ initialized
    /\ Len(logQueue) >= BatchSize
    /\ \A k \in 1..Len(logQueue) - 1 : logQueue[k].id < logQueue[k + 1].id

\* The flushLogs calls between "this.activeBatches++" and the finally block.
RunningFlushes == {t \in FlushSlots : ft[t].pc # "idle"}
FinishedFlushes == {t \in FlushSlots : ft[t].pc # "idle" /\ ft'[t].pc = "idle"}

\* C23: activeBatches is the number of flushLogs calls that have sent a batch
\* and not yet finished with it (send and backup writes), it never exceeds
\* maxConcurrentBatches, and a step changes it by +1 exactly when a batch is
\* dispatched and by -1 exactly when one completes.
C23_CounterCountsRunningBatches ==
    /\ [](activeBatches = Cardinality(RunningFlushes))
    /\ [](activeBatches \in 0..MaxConcurrentBatches)
    /\ [][/\ Cardinality(StartedFlushes) + Cardinality(FinishedFlushes) <= 1
          /\ activeBatches' + Cardinality(FinishedFlushes)
                 = activeBatches + Cardinality(StartedFlushes)]_vars

\* C23 witness: a batch failed permanently, backing it up raised an 'error'
\* event, and the counter is back at 0 with no flushLogs call running.
C23_Witness ==
    /\ permFlushed # {}
    /\ errors >= 1
    /\ sendFails = 1
    /\ activeBatches = 0
    /\ RunningFlushes = {}

\* The ingestion queue a step's flushLogs call finds: the queue as it is, or
\* with the record log() pushes in this step.
QueuesFound ==
    IF LogStep THEN {LogPush(logQueue, NewEntry(nextId, v)) : v \in BOOLEAN}
    ELSE {logQueue}

Ascending(s) == \A k \in 1..Len(s) - 1 : s[k].id < s[k + 1].id

\* C24: every step leaves the ingestion queue as it found it or without its
\* first min(batchSize, length) records, and a flush that starts sends exactly
\* the valid ones of those, in queue order; the queue and every batch hold
\* records in enqueue order, and a record of a formed batch was enqueued before
\* every record still in the queue.
C24_FifoBatching ==
    /\ [][\E q \in QueuesFound :
              \/ /\ logQueue' = q
                 /\ StartedFlushes = {}
              \/ /\ logQueue' = Drop(q, BatchSize)
                 /\ \/ /\ StartedFlushes = {}
                       /\ Validated(Take(q, BatchSize)) = << >>
                    \/ \E t \in FlushSlots :
                           /\ StartedFlushes = {t}
                           /\ ft'[t].batch = Validated(Take(q, BatchSize))]_vars
    /\ [](Ascending(logQueue))
    /\ [](\A t \in FlushSlots : Ascending(ft[t].batch))
    /\ [](\A id \in LogIds :
              attempts[id] >= 1 => \A k \in 1..Len(logQueue) : id < logQueue[k].id)

\* C24 witness: with two batches out, records 3, 4 and 5 were logged; one
\* batch completed and the timer formed the next batch from the first
\* batchSize records of the queue, leaving the last one.
C24_Witness ==
    /\ activeBatches = MaxConcurrentBatches
    /\ \E t \in FlushSlots : ft[t].pc = "sending" /\ IdSeq(ft[t].batch) = <<3, 4>>
    /\ \E t \in FlushSlots : ft[t].pc = "sending" /\ IdSeq(ft[t].batch) = <<2>>
    /\ delivered[1] = 1
    /\ IdSeq(logQueue) = <<5>>

\* The records log() created that validateLog rejects.
InvalidIds == (1..(nextId - 1)) \ validLogged

\* Everything the engine holds outside the ingestion queue, or has written.
PastTheQueue ==
    Ids(retryQueue) \cup Ids(FileLogs(file))
        \cup UNION {Ids(ft[t].batch) \cup Ids(ft[t].existing) : t \in FlushSlots}
        \cup UNION {Ids(rc[c].snap) \cup Ids(rc[c].existing) : c \in CycleSlots}

\* C25: a record validateLog rejects is never in a payload, in the retry
\* queue, in a retry snapshot or in the backup file; and a step that removes
\* records from the ingestion queue without starting a send removes only such
\* records, posts nothing and leaves activeBatches unchanged.
C25_InvalidDroppedAtFlush ==
    /\ [](\A id \in InvalidIds :
              /\ attempts[id] = 0 /\ delivered[id] = 0 /\ backupWrites[id] = 0
              /\ id \notin PastTheQueue)
    /\ [][(Len(logQueue') < Len(logQueue) /\ StartedFlushes = {}) =>
              /\ activeBatches' = activeBatches
              /\ attempts' = attempts
              /\ ft' = ft
              /\ Ids(logQueue) \ Ids(logQueue') \subseteq InvalidIds']_vars

\* C25 witness: record 1 (invalid) was flushed with record 2, whose batch
\* failed permanently and is in the backup file without record 1; records 3
\* and 4 (both invalid) were flushed with no send.
C25_Witness ==
    /\ nextId = 5
    /\ validLogged = {2}
    /\ logQueue = << >>
    /\ IdSeq(FileLogs(file)) = <<2>>
    /\ attempts[2] = 1
    /\ activeBatches = 0

\* The POST of the flushLogs call t fails and the error is not a permanent one.
FlushFailsTransiently(t) ==
    /\ ft[t].pc = "sending" /\ ft'[t].pc # "sending"
    /\ sendFails' = sendFails + 1
    /\ Ids(ft[t].batch) \cap permFlushed' = {}

\* C26: the step in which a flush-time POST fails transiently appends the
\* whole batch, in order, to the retry queue (which the final retry pass of
\* close(), when it awaited this flush, snapshots and empties in the same
\* turn), ends the flushLogs call with no backup started, writes nothing to
\* the backup file and leaves the ingestion queue as it is.
C26_TransientGoesToRetryQueue ==
    [][\A t \in FlushSlots :
           FlushFailsTransiently(t) =>
               /\ \/ retryQueue' = retryQueue \o ft[t].batch
                  \/ /\ ft[t].awaited
                     /\ retryQueue' = << >>
                     /\ \E c \in CycleSlots :
                            /\ rc[c].pc = "idle"
                            /\ rc'[c].snap = retryQueue \o ft[t].batch
               /\ ft'[t] = IdleFlush
               /\ UNCHANGED <<logQueue, file, backupWrites, backupWriteInProgress,
                              delivered>>]_vars

\* C26 witness: the batches [1, 2] and [3] both failed transiently, in this
\* order, and nothing was written to the backup file.
C26_Witness ==
    /\ IdSeq(retryQueue) = <<1, 2, 3>>
    /\ sendFails = 2
    /\ activeBatches = 0
    /\ \A id \in AllIds : backupWrites[id] = 0
    /\ file = NoFile

\* The retry POST of cycle c fails before the last attempt and the cycle does
\* not go on to the next backoff sleep: sendLogs threw a permanent error.
RetryFailsPermanently(c) ==
    /\ rc[c].pc = "sending"
    /\ CycleStep(c)
    /\ sendFails' = sendFails + 1
    /\ rc[c].attempt + 1 < RetryLimit
    /\ ~(rc'[c].pc = "backoff" /\ rc'[c].i = rc[c].i)

\* C27: a permanent error during retry hands every record of the chunk to a
\* write of the backup file, the first at once and none put back on the retry
\* queue; while the chunk is backed up no POST of it is prepared; and each
\* write that settles adds its record to the file once.
C27_PermanentRetryBacksUpOnce ==
    /\ [][\A c \in CycleSlots :
              RetryFailsPermanently(c) =>
                  /\ rc'[c].pc = "bkRead" /\ rc'[c].j = 1 /\ rc'[c].i = rc[c].i
                  /\ retryQueue' = retryQueue]_vars
    /\ [][\A c \in CycleSlots :
              (rc[c].pc \in {"bkRead", "bkWrite"} /\ CycleStep(c)) =>
                  \/ rc'[c].pc \in {"bkRead", "bkWrite"} /\ rc'[c].i = rc[c].i
                  \/ rc'[c].pc = "idle"
                  \/ rc'[c].i > rc[c].i]_vars
    /\ [][\A c \in CycleSlots :
              (rc[c].pc = "bkWrite" /\ CycleStep(c)) =>
                  /\ backupWrites' = Bump(backupWrites, <<Chunk(rc[c])[rc[c].j]>>)
                  /\ retryQueue' = retryQueue]_vars

\* Steps of the retry cycle c: it starts, it posts a chunk, it moves on.
CycleStarts(c) == rc[c].pc = "idle" /\ rc'[c].pc # "idle"
CyclePosts(c) == rc[c].pc = "backoff" /\ rc'[c].pc = "sending"
CycleMovesOn(c) == rc[c].pc # "idle" /\ rc'[c].pc # "idle" /\ rc'[c].i # rc[c].i

\* C28: a cycle starts by taking the whole retry queue (with the batch a final
\* flush has just pushed on it) and leaving it empty; its chunks start at
\* positions 1, 1 + batchSize, ... of the snapshot; a POST carries the records
\* of the snapshot from the chunk's start up to batchSize of them; and the
\* cycle moves to the next chunk, by batchSize, only from a chunk whose POST or
\* backup has settled, never from a backoff sleep.
C28_SnapshotChunkedInOrder ==
    /\ [][\A c \in CycleSlots :
              CycleStarts(c) =>
                  /\ retryQueue' = << >>
                  /\ rc'[c].snap # << >>
                  /\ PrefixOf(retryQueue, rc'[c].snap)
                  /\ rc'[c].i = 1 /\ rc'[c].attempt = 0 /\ rc'[c].pc = "backoff"]_vars
    /\ [](\A c \in CycleSlots :
              rc[c].pc # "idle" =>
                  /\ rc[c].i \in 1..Len(rc[c].snap)
                  /\ (rc[c].i - 1) % BatchSize = 0)
    /\ [][\A c \in CycleSlots :
              CyclePosts(c) =>
                  /\ attempts' = Bump(attempts, Take(Drop(rc[c].snap, rc[c].i - 1), BatchSize))
                  /\ rc'[c].snap = rc[c].snap /\ rc'[c].i = rc[c].i]_vars
    /\ [][\A c \in CycleSlots :
              CycleMovesOn(c) =>
                  /\ rc[c].pc \in {"sending", "bkRead", "bkWrite"}
                  /\ rc'[c].i = rc[c].i + BatchSize
                  /\ rc'[c].snap = rc[c].snap
                  /\ rc'[c].pc = "backoff" /\ rc'[c].attempt = 0]_vars
    /\ [][\A c \in CycleSlots :
              (rc[c].pc # "idle" /\ rc'[c].pc # "idle") => rc'[c].snap = rc[c].snap]_vars

\* C28 witness: a snapshot of three records, taken from two failed batches,
\* whose first chunk [1, 2] was delivered and whose second chunk [3] is posted.
C28_Witness ==
    \E c \in CycleSlots :
        /\ IdSeq(rc[c].snap) = <<1, 2, 3>>
        /\ rc[c].i = 1 + BatchSize
        /\ rc[c].pc = "sending"
        /\ delivered[1] = 1 /\ delivered[2] = 1 /\ delivered[3] = 0
        /\ attempts[3] = 2

\* The retry cycle c returns.
CycleEnds(c) == rc[c].pc # "idle" /\ rc'[c].pc = "idle"

\* C29: a cycle returns only from the last chunk of its snapshot, and when it
\* returns every record of a chunk after the first has been posted by it and
\* is delivered or in the backup file, whatever happened to the chunks before.
C29_LaterChunksStillResolved ==
    [][\A c \in CycleSlots :
           CycleEnds(c) =>
               /\ rc[c].i + BatchSize > Len(rc[c].snap)
               /\ \A k \in (BatchSize + 1)..Len(rc[c].snap) :
                      LET id == rc[c].snap[k].id
                      IN  /\ attempts'[id] >= 2
                          /\ delivered'[id] >= 1 \/ id \in Ids(FileLogs(file'))]_vars

\* The statuses sendLogs turns into one of its three permanent errors.
PermanentStatuses == {401, 403, 400, 404}

\* A POST settles in this step: the one of the flushLogs call t, the one of the
\* retry cycle c.
FlushPostSettles(t) == ft[t].pc = "sending" /\ ft'[t].pc # "sending"
RetryPostSettles(c) == rc[c].pc = "sending" /\ rc'[c] # rc[c]

\* What the callers do next: backupFailedLog is called (it starts reading the
\* file, or finds the flag set and clears it).
BackupCalled(pc) ==
    pc = "bkRead" \/ (backupWriteInProgress /\ ~backupWriteInProgress')

\* C30: sendLogs maps the transport result to its outcome as the table says,
\* and both callers take 401, 403, 400 and 404, and nothing else, as
\* permanent: after such a result backupFailedLog is called at once; after any
\* other failure the flush path appends the batch to the retry queue and the
\* retry path sleeps for the next attempt or, after the last one, backs the
\* chunk up as exhausted; after a 200 the records are delivered.
C30_SenderClassifies ==
    /\ [](/\ Classify(200) = "ok"
          /\ Classify(401) = "Unauthorized"
          /\ Classify(403) = "Forbidden"
          /\ Classify(400) = "Permanent error"
          /\ Classify(404) = "Permanent error"
          /\ \A res \in TransportResults \ (PermanentStatuses \cup {200}) :
                 Classify(res) = "transient"
          /\ \A res \in TransportResults :
                 IsPermanent(Classify(res)) <=> res \in PermanentStatuses)
    /\ [][\A t \in FlushSlots :
              FlushPostSettles(t) =>
                  LET res == lastPost'[1]
                      batch == ft[t].batch
                  IN  IF res = 200
                      THEN /\ delivered' = Bump(delivered, batch)
                           /\ ft'[t].pc = "idle"
                           /\ UNCHANGED <<retryQueue, backupWriteInProgress>>
                      ELSE IF res \in PermanentStatuses
                      THEN /\ BackupCalled(ft'[t].pc)
                           /\ delivered' = delivered
                      ELSE /\ retryQueue' = retryQueue \o batch
                           /\ ft'[t].pc = "idle"
                           /\ UNCHANGED <<delivered, backupWriteInProgress>>]_vars
    /\ [][\A c \in CycleSlots :
              RetryPostSettles(c) =>
                  LET res == lastPost'[1]
                      batch == Take(Drop(rc[c].snap, rc[c].i - 1), BatchSize)
                  IN  IF res = 200
                      THEN /\ delivered' = Bump(delivered, batch)
                           /\ UNCHANGED <<retryQueue, backupWriteInProgress, exhausted>>
                      ELSE IF res \in PermanentStatuses
                      THEN /\ BackupCalled(rc'[c].pc)
                           /\ UNCHANGED <<delivered, exhausted>>
                      ELSE IF rc[c].attempt + 1 < RetryLimit
                      THEN /\ rc'[c].pc = "backoff"
                           /\ rc'[c].attempt = rc[c].attempt + 1
                           /\ UNCHANGED <<retryQueue, delivered, backupWriteInProgress>>
                      ELSE /\ BackupCalled(rc'[c].pc)
                           /\ exhausted' = exhausted \cup Ids(batch)
                           /\ delivered' = delivered]_vars

\* C30 witness: a batch failed at flush time with no response, was taken by a
\* retry cycle, and its retry POST was answered 404: the chunk is backed up
\* with attempts left.
C30_Witness ==
    /\ lastPost = <<404>>
    /\ sendFails = 2
    /\ permFlushed = {}
    /\ \E c \in CycleSlots :
           /\ rc[c].pc = "bkRead"
           /\ rc[c].attempt = 0

\* C31: a close() call that has not resolved eventually resolves.
C31_CloseTerminates == (cl.calls >= 1 /\ cl.pc # "resolved") ~> (cl.pc = "resolved")

\* C31 witness: close() has resolved after waiting for a batch in flight whose
\* POST failed and whose retries ran out, so that the records went to a backup.
C31_Witness ==
    /\ cl.pc = "resolved"
    /\ sendFails = CloseSendFails
    /\ exhausted # {}
    /\ \E id \in exhausted : id \in Ids(FileLogs(file))

\* The records the engine has handed on: the payloads of the POSTs, the retry
\* queue and the retry snapshots, and the record each backupFailedLog call
\* appends to what it read from the file.
HandedOn ==
    {retryQueue[k] : k \in 1..Len(retryQueue)}
        \cup UNION {{ft[t].batch[k] : k \in 1..Len(ft[t].batch)} : t \in FlushSlots}
        \cup UNION {{rc[c].snap[k] : k \in 1..Len(rc[c].snap)} : c \in CycleSlots}
        \cup {ft[t].existing[Len(ft[t].existing)] :
                  t \in {x \in FlushSlots : ft[x].pc = "bkWrite"}}
        \cup {rc[c].existing[Len(rc[c].existing)] :
                  c \in {x \in CycleSlots : rc[x].pc = "bkWrite"}}

\* C32: every record the engine sends, puts on the retry queue or appends to
\* the backup file is one validateLog accepted and sanitizeLog produced, the
\* records recovered from the backup file included.
C32_OnlySanitizedRecordsLeave ==
    \A log \in HandedOn : log.valid /\ log.sanitized

\* C32 witness: the raw record found in the backup file was loaded by init(),
\* flushed, and its POST failed: it is on the retry queue, sanitized.
C32_Witness ==
    /\ lim.startup = Stringify(<<RawRec>>)
    /\ loads = 1
    /\ attempts[0] = 1
    /\ \E k \in 1..Len(retryQueue) : retryQueue[k].id = 0

\* C33: backupWriteInProgress is set exactly while some backupFailedLog call is
\* between its file read and the end of its file write, and a step clears it
\* only when such a call's write settles.
C33_FlagHeldByItsWriter ==
    /\ [](backupWriteInProgress <=> BackupWriters >= 1)
    /\ [][(backupWriteInProgress /\ ~backupWriteInProgress') =>
              \/ \E t \in FlushSlots : ft[t].pc = "bkWrite" /\ ft'[t] # ft[t]
              \/ \E c \in CycleSlots : rc[c].pc = "bkWrite" /\ rc'[c] # rc[c]]_vars

\* The retry cycles that are running.
RunningCycles == {c \in CycleSlots : rc[c].pc # "idle"}

\* The records two running cycles have still to process are different records.
LeftoversDisjoint ==
    \A c1, c2 \in RunningCycles :
        c1 # c2 => Ids(CycleHolds(rc[c1])) \cap Ids(CycleHolds(rc[c2])) = {}

\* C34: a step leaves the retry queue as it is, appends to it, or empties it
\* into the snapshot of a cycle that starts; a running cycle's snapshot never
\* changes; and no record is in the snapshots of two running cycles.
C34_AppendsWaitForLaterCycle ==
    /\ [][\/ PrefixOf(retryQueue, retryQueue')
          \/ /\ retryQueue' = << >>
             /\ \E c \in CycleSlots : CycleStarts(c) /\ PrefixOf(retryQueue, rc'[c].snap)]_vars
    /\ [][\A c \in CycleSlots :
              (rc[c].pc # "idle" /\ rc'[c].pc # "idle") => rc'[c].snap = rc[c].snap]_vars
    /\ [](\A c1, c2 \in RunningCycles :
              c1 # c2 => Ids(rc[c1].snap) \cap Ids(rc[c2].snap) = {})

\* C35: no record is in the payload of more than 1 + retryLimit POSTs.
C35_AttemptsBounded == \A id \in AllIds : attempts[id] <= 1 + RetryLimit

\* close() resolves in this step.
CloseResolves == cl.pc # "resolved" /\ cl'.pc = "resolved"

\* C36: when close() resolves no timer is armed, no retry cycle is running and
\* no flushLogs call is sending or backing up.
C36_QuiescentAfterClose ==
    [][CloseResolves =>
           /\ armedFlush' = {} /\ armedRetry' = {}
           /\ \A c \in CycleSlots : rc'[c].pc = "idle"
           /\ \A t \in FlushSlots : ft'[t].pc = "idle"]_vars

====
